---- MODULE Spec2Model ----
(***************************************************************************)
(* Storage engine of the To-do List Manager back end                       *)
(* (src/prjTLManager/TLManager-s.py): a JSON file guarded by a file lock,  *)
(* rewritten through a temp sibling, used by worker processes that each    *)
(* run the module-level initialization and then serve GET / POST / PATCH / *)
(* DELETE requests.                                                        *)
(*                                                                         *)
(* Files are modelled by their contents as a sequence of JSON tokens       *)
(* ("[", objects, ",", whitespace, "]"); an object is one token.  A write  *)
(* that fails leaves a prefix of the tokens, or all of them.               *)
(***************************************************************************)
EXTENDS Integers, Sequences, FiniteSets, TLC

\* ---------------------------------------------------------------- bounds
\* Worker processes sharing the store.
NumProcs == 2
\* Requests served in one run, over all processes.
MaxReqs == 2
\* I/O errors, crashes and lock timeouts in one run.
MaxFaults == 1
\* Records the store holds when a run starts from a filled store.
MaxStored == 2

Procs == 1..NumProcs

\* ------------------------------------------------------- program constants
\* The indent handle_patch and handle_delete pass to json.dump.
PATCH_INDENT == 2

\* ------------------------------------------------------------ JSON values
EmptyObj == [k \in {} |-> ""]

\* Bodies of POST requests (any JSON object, "id" included or not by the caller).
PostBodies ==
    { [id |-> "1", title |-> "a", done |-> FALSE],
      [id |-> "2"] }

\* Bodies of PATCH requests: a field to overwrite, a field to add, no field
\* but the id, no id.
PatchBodies ==
    { [id |-> "1", done |-> TRUE],
      [id |-> "2", title |-> "b"],
      [id |-> "1"],
      [done |-> TRUE] }

\* The <int:data_id> of DELETE requests.
DeleteIds == {1, 2}

\* str(data_id)
Str(n) ==
    CASE n = 0 -> "0" [] n = 1 -> "1" [] n = 2 -> "2" [] n = 3 -> "3"
      [] OTHER -> "n"

\* dict.get("id") == v, for a v that is not None
IdIs(r, v) == "id" \in DOMAIN r /\ r["id"] = v

\* ------------------------------------------------------------- JSON text
LBRACK == [k |-> "["]
RBRACK == [k |-> "]"]
COMMA == [k |-> ","]
WS == [k |-> "ws"]
OBJ(r) == [k |-> "obj", v |-> r]

RECURSIVE DumpItems(_, _)
DumpItems(s, indent) ==
    IF s = <<>> THEN <<>>
    ELSE (IF indent > 0 THEN <<WS>> ELSE <<>>)
         \o <<OBJ(Head(s))>>
         \o (IF Len(s) > 1 THEN <<COMMA>> ELSE IF indent > 0 THEN <<WS>> ELSE <<>>)
         \o DumpItems(Tail(s), indent)

\* json.dump(s, file, indent=indent): the text of a list of objects.
Dump(s, indent) == <<LBRACK>> \o DumpItems(s, indent) \o <<RBRACK>>

\* The text a write leaves when it raises OSError: json.dump or flush cut
\* short leaves a strict prefix, os.fsync failing leaves the whole text.
Prefixes(t) == { SubSeq(t, 1, n) : n \in 0..Len(t) }

NoWS(t) == SelectSeq(t, LAMBDA x : x.k # "ws")

RECURSIVE ItemsOk(_)
\* t is  obj ("," obj)*  followed by "]" and nothing else
ItemsOk(t) ==
    /\ Len(t) >= 2
    /\ t[1].k = "obj"
    /\ \/ Len(t) = 2 /\ t[2].k = "]"
       \/ Len(t) > 2 /\ t[2].k = "," /\ ItemsOk(SubSeq(t, 3, Len(t)))

\* Whether json.load accepts the text (else json.JSONDecodeError).
Parses(t) ==
    LET u == NoWS(t) IN
        /\ Len(u) >= 2
        /\ u[1].k = "["
        /\ \/ Len(u) = 2 /\ u[2].k = "]"
           \/ ItemsOk(SubSeq(u, 2, Len(u)))

\* json.load(file) of a text that parses: the list of its objects.
Load(t) ==
    LET o == SelectSeq(t, LAMBDA x : x.k = "obj") IN
        [i \in 1..Len(o) |-> o[i].v]

\* A file: absent, or present with its text.
Absent == [exists |-> FALSE, text |-> <<>>]
File(t) == [exists |-> TRUE, text |-> t]

\* ------------------------------------------------------- handler results
R(status, code) == [status |-> status, code |-> code]
NoResult == R("none", 0)
Ok == R("ok", 200)
GetOk == R("data", 200)
GetMissing == R("DB missing", 404)
FileMissing == R("DB file missing", 404)
FileCorrupted == R("DB file corrupted", 500)
WriteFailed == R("OSError, IOError, JSONEncodeError", 500)
TaskNotFound == R("task not found", 404)
IdMissing == R("updated_data_id missing", 404)
NoUpdates == R("updated_data does not matched database", 404)
\* RuntimeError raised by a handler: the request fails with a 500.
GetCorrupted == R("RuntimeError: DB corrupted", 500)
Busy == R("RuntimeError: DB busy", 500)
\* Module-level initialization.
Initialized == R("DB created / initialized", 200)
InitFailed == R("RuntimeError: failed to create/initialize DB atomically", 500)

\* ---------------------------------------------------------------- state
VARIABLES
    db,        \* DB_FILE
    tmp,       \* DB_FILENAME_TMP
    holders,   \* the processes holding the file lock
    pc,        \* each process's position
    req,       \* each process's current operation and its input
    db_data,   \* each process's db_data as loaded
    out,       \* each process's list to be written
    res,       \* each process's last result
    nreq,      \* requests invoked so far
    nfault     \* I/O errors, crashes and lock timeouts so far

vars == <<db, tmp, holders, pc, req, db_data, out, res, nreq, nfault>>

Request(kind, body, data_id) == [kind |-> kind, body |-> body, data_id |-> data_id]

InitReq == Request("init", EmptyObj, 0)

\* Past the with block the handler reads its request no more; the finally
\* clauses are the same code, and only a failed initialization ends the
\* process.
Handled(r) == Request(IF r.kind = "init" THEN "init" ELSE "handled", EmptyObj, 0)

Requests ==
    {Request("get", EmptyObj, 0)}
    \cup {Request("post", b, 0) : b \in PostBodies}
    \cup {Request("patch", b, 0) : b \in PatchBodies}
    \cup {Request("delete", EmptyObj, i) : i \in DeleteIds}

\* One request for each path through the handlers: on the store the
\* initialization leaves and on the store after the POST, the PATCH and the
\* DELETE find no record or one record with their id.
LockRequests ==
    { Request("get", EmptyObj, 0),
      Request("post", [id |-> "2"], 0),
      Request("patch", [id |-> "2", title |-> "b"], 0),
      Request("patch", [id |-> "2"], 0),
      Request("patch", [done |-> TRUE], 0),
      Request("delete", EmptyObj, 2) }

\* Each worker process starts by importing the module, which runs the
\* initialization.
Init ==
    /\ db = Absent
    /\ tmp = Absent
    /\ holders = {}
    /\ pc = [p \in Procs |-> "start"]
    /\ req = [p \in Procs |-> InitReq]
    /\ db_data = [p \in Procs |-> <<>>]
    /\ out = [p \in Procs |-> <<>>]
    /\ res = [p \in Procs |-> NoResult]
    /\ nreq = 0
    /\ nfault = 0

\* The snapshots POST requests can have stored.
Stored == UNION { [1..n -> PostBodies] : n \in 0..MaxStored }

\* Every process has run its initialization and waits for requests.
Serving ==
    /\ tmp = Absent
    /\ holders = {}
    /\ pc = [p \in Procs |-> "idle"]
    /\ req = [p \in Procs |-> InitReq]
    /\ db_data = [p \in Procs |-> <<>>]
    /\ out = [p \in Procs |-> <<>>]
    /\ res = [p \in Procs |-> NoResult]
    /\ nreq = 0
    /\ nfault = 0

\* Earlier POST requests have filled the store.
InitStored == db \in { File(Dump(s, 0)) : s \in Stored } /\ Serving

\* The store as the initialization leaves it.
InitEmpty == db = File(Dump(<<>>, 0)) /\ Serving

\* The data file as the service can find it: a stored snapshot, or removed
\* or cut short from outside or by an interrupted write.
Damaged ==
    {Absent}
    \cup { File(t) : t \in { u \in UNION { Prefixes(Dump(s, 0)) : s \in Stored } :
                                ~Parses(u) } }

InitDamaged ==
    /\ db \in Damaged \cup { File(Dump(s, 0)) : s \in Stored }
    /\ Serving

\* The processes are serving and the data file has been removed, or cut
\* short after its first record.
InitBroken ==
    /\ db \in { Absent, File(SubSeq(Dump(<<[id |-> "2"]>>, 0), 1, 2)) }
    /\ Serving

\* ------------------------------------------------- what the handlers compute
\* handle_post: db_data.append(new_data)
PostData(d, new_data) == Append(d, new_data)

\* handle_patch: {key: value for key, value in updated_data.items() if key != "id"}
Updates(updated_data) == [k \in DOMAIN updated_data \ {"id"} |-> updated_data[k]]

\* dict.update
Update(r, u) == [k \in DOMAIN r \cup DOMAIN u |-> IF k \in DOMAIN u THEN u[k] ELSE r[k]]

\* handle_patch: the index of the first record the for loop matches, 0 when
\* the loop ends without a match.
FirstMatch(d, id) ==
    IF \E i \in 1..Len(d) : IdIs(d[i], id)
    THEN CHOOSE i \in 1..Len(d) :
            IdIs(d[i], id) /\ \A j \in 1..(i - 1) : ~IdIs(d[j], id)
    ELSE 0

\* The updates applied to every record with the id, not only the first.
PatchDataAll(d, updated_data) ==
    [i \in 1..Len(d) |->
        IF IdIs(d[i], updated_data["id"])
        THEN Update(d[i], Updates(updated_data)) ELSE d[i]]

\* handle_patch: db_data after the for loop.
PatchData(d, updated_data) ==
    LET i == FirstMatch(d, updated_data["id"]) IN
        IF i = 0 THEN d
        ELSE [d EXCEPT ![i] = Update(d[i], Updates(updated_data))]

\* handle_delete: [data for data in db_data if data.get("id") != data_id]
DeleteData(d, data_id) == SelectSeq(d, LAMBDA r : ~IdIs(r, Str(data_id)))

\* The indent each writer passes to json.dump.
IndentOf(kind) == IF kind \in {"patch", "delete"} THEN PATCH_INDENT ELSE 0

\* The text the process at p is writing.
TextOf(p) == Dump(out[p], IndentOf(req[p].kind))

\* Positions between lock acquisition and lock release.
Inside == {"load", "open", "dump", "replace", "release"}

\* The id test made inside the try block: the finally clause runs.
InvokeInTry(p, S) ==
    /\ pc[p] = "idle"
    /\ nreq < MaxReqs
    /\ \E r \in S :
        /\ req' = [req EXCEPT ![p] = r]
        /\ IF r.kind = "patch" /\ "id" \notin DOMAIN r.body
           THEN /\ res' = [res EXCEPT ![p] = IdMissing]
                /\ pc' = [pc EXCEPT ![p] = "finally"]
           ELSE /\ res' = [res EXCEPT ![p] = NoResult]
                /\ pc' = [pc EXCEPT ![p] = "start"]
    /\ nreq' = nreq + 1
    /\ UNCHANGED <<db, tmp, holders, db_data, out, nfault>>

\* ---------------------------------------------------------------- steps
\* todo_list_manager_server / the DELETE route: a request reaches a handler
\* of an idle process.  handle_patch returns at once, before the try, when
\* the body has no id.
InvokeFrom(p, S) ==
    /\ pc[p] = "idle"
    /\ nreq < MaxReqs
    /\ \E r \in S :
        /\ req' = [req EXCEPT ![p] = r]
        /\ IF r.kind = "patch" /\ "id" \notin DOMAIN r.body
           THEN /\ res' = [res EXCEPT ![p] = IdMissing]
                /\ pc' = [pc EXCEPT ![p] = "done"]
           ELSE /\ res' = [res EXCEPT ![p] = NoResult]
                /\ pc' = [pc EXCEPT ![p] = "start"]
    /\ nreq' = nreq + 1
    /\ UNCHANGED <<db, tmp, holders, db_data, out, nfault>>

\* Any request.
Invoke(p) == InvokeFrom(p, Requests)

\* A request of LockRequests.
Serve(p) == InvokeFrom(p, LockRequests)

\* A POST request whose body differs from every other request's.
InvokeAppend(p) ==
    /\ pc[p] = "idle"
    /\ nreq < MaxReqs
    /\ req' = [req EXCEPT ![p] = Request("post", [id |-> Str(nreq + 1)], 0)]
    /\ pc' = [pc EXCEPT ![p] = "start"]
    /\ nreq' = nreq + 1
    /\ UNCHANGED <<db, tmp, holders, db_data, out, res, nfault>>

\* The lock taken although another process holds it.
AcquireNoWait(p) ==
    /\ pc[p] = "start"
    /\ holders' = holders \cup {p}
    /\ pc' = [pc EXCEPT ![p] = IF req[p].kind = "init" THEN "open" ELSE "load"]
    /\ UNCHANGED <<db, tmp, req, db_data, out, res, nreq, nfault>>

\* with lock: the lock is acquired when no process holds it.
Acquire(p) ==
    /\ pc[p] = "start"
    /\ holders = {}
    /\ holders' = holders \cup {p}
    /\ pc' = [pc EXCEPT ![p] = IF req[p].kind = "init" THEN "open" ELSE "load"]
    /\ UNCHANGED <<db, tmp, req, db_data, out, res, nreq, nfault>>

\* The wait for the lock started over when the timeout expires.
TimedOutRetry(p) ==
    /\ pc[p] = "start"
    /\ holders \ {p} # {}
    /\ UNCHANGED vars

\* except Timeout: the lock stayed held by another process for the whole
\* timeout; the handler raises RuntimeError, and its finally clause runs
\* (handle_get has none).
TimedOut(p) ==
    /\ pc[p] = "start"
    /\ holders \ {p} # {}
    /\ res' = [res EXCEPT ![p] = Busy]
    /\ pc' = [pc EXCEPT ![p] = IF req[p].kind = "get" THEN "done" ELSE "finally"]
    /\ req' = [req EXCEPT ![p] = Handled(@)]
    /\ UNCHANGED <<db, tmp, holders, db_data, out, nreq>>

\* A lock timeout counted among the faults of the run.
LockTimeout(p) ==
    /\ nfault < MaxFaults
    /\ nfault' = nfault + 1
    /\ TimedOut(p)

\* A lock timeout in a run where any number of them may happen.
Timeout(p) == TimedOut(p) /\ nfault' = nfault

\* Every load failure reported as a missing file.
LoadFailureMissing == FileMissing

\* The outcome of open(DB_FILE, "r") and json.load in the writers.
LoadFailure == IF ~db.exists THEN FileMissing ELSE FileCorrupted

Loadable == db.exists /\ Parses(db.text)

\* A GET that returns whatever records the text of the data file holds.
GetLoadLenient(p) ==
    /\ pc[p] = "load" /\ req[p].kind = "get"
    /\ IF db.exists
       THEN /\ db_data' = [db_data EXCEPT ![p] = Load(db.text)]
            /\ res' = [res EXCEPT ![p] = GetOk]
       ELSE /\ db_data' = db_data
            /\ res' = [res EXCEPT ![p] = GetMissing]
    /\ pc' = [pc EXCEPT ![p] = "release"]
    /\ UNCHANGED <<db, tmp, holders, req, out, nreq, nfault>>

\* handle_get under the lock.
GetLoad(p) ==
    /\ pc[p] = "load" /\ req[p].kind = "get"
    /\ IF Loadable
       THEN /\ db_data' = [db_data EXCEPT ![p] = Load(db.text)]
            /\ res' = [res EXCEPT ![p] = GetOk]
       ELSE /\ db_data' = db_data
            /\ res' = [res EXCEPT ![p] = IF db.exists THEN GetCorrupted ELSE GetMissing]
    /\ pc' = [pc EXCEPT ![p] = "release"]
    /\ UNCHANGED <<db, tmp, holders, req, out, nreq, nfault>>

\* handle_post: load and append.
PostLoad(p) ==
    /\ pc[p] = "load" /\ req[p].kind = "post"
    /\ IF Loadable
       THEN /\ db_data' = [db_data EXCEPT ![p] = Load(db.text)]
            /\ out' = [out EXCEPT ![p] = PostData(Load(db.text), req[p].body)]
            /\ pc' = [pc EXCEPT ![p] = "open"]
            /\ res' = res
       ELSE /\ res' = [res EXCEPT ![p] = LoadFailure]
            /\ pc' = [pc EXCEPT ![p] = "release"]
            /\ UNCHANGED <<db_data, out>>
    /\ UNCHANGED <<db, tmp, holders, req, nreq, nfault>>

\* The for loop without the return on an empty dict of updates.
PatchLoadAlways(p) ==
    /\ pc[p] = "load" /\ req[p].kind = "patch"
    /\ IF ~Loadable
       THEN /\ res' = [res EXCEPT ![p] = LoadFailure]
            /\ pc' = [pc EXCEPT ![p] = "release"]
            /\ UNCHANGED <<db_data, out>>
       ELSE LET d == Load(db.text) IN
            /\ db_data' = [db_data EXCEPT ![p] = d]
            /\ out' = [out EXCEPT ![p] = PatchData(d, req[p].body)]
            /\ pc' = [pc EXCEPT ![p] = "open"]
            /\ res' = res
    /\ UNCHANGED <<db, tmp, holders, req, nreq, nfault>>

\* A PATCH whose id matches no record reports not found and writes nothing.
PatchLoadStrict(p) ==
    /\ pc[p] = "load" /\ req[p].kind = "patch"
    /\ IF ~Loadable
       THEN /\ res' = [res EXCEPT ![p] = LoadFailure]
            /\ pc' = [pc EXCEPT ![p] = "release"]
            /\ UNCHANGED <<db_data, out>>
       ELSE LET d == Load(db.text) IN
            /\ db_data' = [db_data EXCEPT ![p] = d]
            /\ IF FirstMatch(d, req[p].body["id"]) = 0
               THEN /\ res' = [res EXCEPT ![p] = TaskNotFound]
                    /\ pc' = [pc EXCEPT ![p] = "release"]
                    /\ out' = out
               ELSE IF DOMAIN Updates(req[p].body) = {}
               THEN /\ res' = [res EXCEPT ![p] = NoUpdates]
                    /\ pc' = [pc EXCEPT ![p] = "release"]
                    /\ out' = out
               ELSE /\ out' = [out EXCEPT ![p] = PatchData(d, req[p].body)]
                    /\ pc' = [pc EXCEPT ![p] = "open"]
                    /\ res' = res
    /\ UNCHANGED <<db, tmp, holders, req, nreq, nfault>>

\* handle_patch: load and the for loop; the loop returns when the matched
\* record has nothing to update.
PatchLoad(p) ==
    /\ pc[p] = "load" /\ req[p].kind = "patch"
    /\ IF ~Loadable
       THEN /\ res' = [res EXCEPT ![p] = LoadFailure]
            /\ pc' = [pc EXCEPT ![p] = "release"]
            /\ UNCHANGED <<db_data, out>>
       ELSE LET d == Load(db.text) IN
            /\ db_data' = [db_data EXCEPT ![p] = d]
            /\ IF FirstMatch(d, req[p].body["id"]) # 0
                  /\ DOMAIN Updates(req[p].body) = {}
               THEN /\ res' = [res EXCEPT ![p] = NoUpdates]
                    /\ pc' = [pc EXCEPT ![p] = "release"]
                    /\ out' = out
               ELSE /\ out' = [out EXCEPT ![p] = PatchData(d, req[p].body)]
                    /\ pc' = [pc EXCEPT ![p] = "open"]
                    /\ res' = res
    /\ UNCHANGED <<db, tmp, holders, req, nreq, nfault>>

\* handle_delete: load and filter; not found when the length did not change.
DeleteLoad(p) ==
    /\ pc[p] = "load" /\ req[p].kind = "delete"
    /\ IF ~Loadable
       THEN /\ res' = [res EXCEPT ![p] = LoadFailure]
            /\ pc' = [pc EXCEPT ![p] = "release"]
            /\ UNCHANGED <<db_data, out>>
       ELSE LET d == Load(db.text)
                updated_data == DeleteData(d, req[p].data_id) IN
            /\ db_data' = [db_data EXCEPT ![p] = d]
            /\ IF Len(updated_data) = Len(d)
               THEN /\ res' = [res EXCEPT ![p] = TaskNotFound]
                    /\ pc' = [pc EXCEPT ![p] = "release"]
                    /\ out' = out
               ELSE /\ out' = [out EXCEPT ![p] = updated_data]
                    /\ pc' = [pc EXCEPT ![p] = "open"]
                    /\ res' = res
    /\ UNCHANGED <<db, tmp, holders, req, nreq, nfault>>

\* open(DB_FILENAME_TMP, "w") in the initialization, handle_post and
\* handle_patch: the temp file is created or truncated.
OpenTmp(p) ==
    /\ pc[p] = "open" /\ req[p].kind \in {"init", "post", "patch"}
    /\ tmp' = File(<<>>)
    /\ pc' = [pc EXCEPT ![p] = "dump"]
    /\ UNCHANGED <<db, holders, req, db_data, out, res, nreq, nfault>>

\* handle_delete opens DB_FILE itself for writing: the data file is truncated.
DeleteOpen(p) ==
    /\ pc[p] = "open" /\ req[p].kind = "delete"
    /\ db' = File(<<>>)
    /\ pc' = [pc EXCEPT ![p] = "dump"]
    /\ UNCHANGED <<tmp, holders, req, db_data, out, res, nreq, nfault>>

\* json.dump, flush, fsync into the temp file.  When another process's
\* finally clause has removed the temp file since it was opened, the text
\* goes to the unlinked file and no file of that name appears.
DumpTmp(p) ==
    /\ pc[p] = "dump" /\ req[p].kind \in {"init", "post", "patch"}
    /\ tmp' = IF tmp.exists THEN File(TextOf(p)) ELSE tmp
    /\ pc' = [pc EXCEPT ![p] = "replace"]
    /\ UNCHANGED <<db, holders, req, db_data, out, res, nreq, nfault>>

\* handle_delete: json.dump, flush, fsync into DB_FILE.
DeleteDump(p) ==
    /\ pc[p] = "dump" /\ req[p].kind = "delete"
    /\ db' = File(TextOf(p))
    /\ pc' = [pc EXCEPT ![p] = "replace"]
    /\ UNCHANGED <<tmp, holders, req, db_data, out, res, nreq, nfault>>

\* What the handler reports when its write succeeded / raised OSError.
Success(p) == IF req[p].kind = "init" THEN Initialized ELSE Ok
Failure(p) == IF req[p].kind = "init" THEN InitFailed ELSE WriteFailed

\* os.replace(DB_FILENAME_TMP, DB_FILE): the temp file becomes the data
\* file; FileNotFoundError (an OSError) when there is no temp file.
Replace(p) ==
    /\ pc[p] = "replace"
    /\ IF tmp.exists
       THEN /\ db' = tmp
            /\ tmp' = Absent
            /\ res' = [res EXCEPT ![p] = Success(p)]
       ELSE /\ UNCHANGED <<db, tmp>>
            /\ res' = [res EXCEPT ![p] = Failure(p)]
    /\ pc' = [pc EXCEPT ![p] = "release"]
    /\ UNCHANGED <<holders, req, db_data, out, nreq, nfault>>

\* The lock released on success only.
ReleaseOnSuccess(p) ==
    /\ pc[p] = "release"
    /\ holders' = IF res[p].code = 200 THEN holders \ {p} ELSE holders
    /\ pc' = [pc EXCEPT ![p] = IF req[p].kind = "get" THEN "done" ELSE "finally"]
    /\ db_data' = [db_data EXCEPT ![p] = <<>>]
    /\ out' = [out EXCEPT ![p] = <<>>]
    /\ req' = [req EXCEPT ![p] = Handled(@)]
    /\ UNCHANGED <<db, tmp, res, nreq, nfault>>

\* Leaving the with block (return or raise): the lock is released; then the
\* finally clause, which handle_get does not have.  The request's input and
\* the lists are not used again.
Release(p) ==
    /\ pc[p] = "release"
    /\ holders' = holders \ {p}
    /\ pc' = [pc EXCEPT ![p] = IF req[p].kind = "get" THEN "done" ELSE "finally"]
    /\ db_data' = [db_data EXCEPT ![p] = <<>>]
    /\ out' = [out EXCEPT ![p] = <<>>]
    /\ req' = [req EXCEPT ![p] = Handled(@)]
    /\ UNCHANGED <<db, tmp, res, nreq, nfault>>

\* Where a process goes after its finally clause: a failed initialization
\* ends the process; otherwise it waits for the next request.
AfterFinally(p) ==
    IF req[p].kind = "init" /\ res[p] # Initialized THEN "failed" ELSE "idle"

\* The handler has returned: the response is sent and its locals are gone.
Returned(p) ==
    /\ pc' = [pc EXCEPT ![p] = AfterFinally(p)]
    /\ req' = [req EXCEPT ![p] = InitReq]
    /\ res' = [res EXCEPT ![p] = NoResult]

\* handle_get, and handle_patch on a body without id, return without a
\* finally clause.
Return(p) ==
    /\ pc[p] = "done"
    /\ Returned(p)
    /\ UNCHANGED <<db, tmp, holders, db_data, out, nreq, nfault>>

\* finally: if os.path.exists(DB_FILENAME_TMP): os.remove(DB_FILENAME_TMP)
\* The handler then returns.
Finally(p) ==
    /\ pc[p] = "finally"
    /\ tmp' = Absent
    /\ Returned(p)
    /\ UNCHANGED <<db, holders, db_data, out, nreq, nfault>>

\* ------------------------------------------------ I/O errors and crashes
\* open(..., "w") raises OSError: nothing is created or truncated.
OpenFail(p) ==
    /\ nfault < MaxFaults
    /\ nfault' = nfault + 1
    /\ pc[p] = "open"
    /\ res' = [res EXCEPT ![p] = Failure(p)]
    /\ pc' = [pc EXCEPT ![p] = "release"]
    /\ UNCHANGED <<db, tmp, holders, req, db_data, out, nreq>>

\* json.dump / flush / fsync raises OSError: the file being written keeps a
\* prefix of the text, all of it when it is os.fsync that failed.
DumpFail(p) ==
    /\ nfault < MaxFaults
    /\ nfault' = nfault + 1
    /\ pc[p] = "dump"
    /\ \E t \in Prefixes(TextOf(p)) :
        IF req[p].kind = "delete"
        THEN db' = File(t) /\ tmp' = tmp
        ELSE tmp' = (IF tmp.exists THEN File(t) ELSE tmp) /\ db' = db
    /\ res' = [res EXCEPT ![p] = Failure(p)]
    /\ pc' = [pc EXCEPT ![p] = "release"]
    /\ UNCHANGED <<holders, req, db_data, out, nreq>>

\* os.replace raises OSError although the temp file exists: nothing moves.
ReplaceFail(p) ==
    /\ nfault < MaxFaults
    /\ nfault' = nfault + 1
    /\ pc[p] = "replace"
    /\ tmp.exists
    /\ res' = [res EXCEPT ![p] = Failure(p)]
    /\ pc' = [pc EXCEPT ![p] = "release"]
    /\ UNCHANGED <<db, tmp, holders, req, db_data, out, nreq>>

\* os.remove raises OSError in the finally clause: logged, nothing removed.
RemoveFail(p) ==
    /\ nfault < MaxFaults
    /\ nfault' = nfault + 1
    /\ pc[p] = "finally"
    /\ tmp.exists
    /\ Returned(p)
    /\ UNCHANGED <<db, tmp, holders, db_data, out, nreq>>

\* The process dies inside an operation: no finally clause runs, the
\* operating system drops the lock it held, and its memory is gone.
Crash(p) ==
    /\ nfault < MaxFaults
    /\ nfault' = nfault + 1
    /\ pc[p] \in Inside \cup {"finally"}
    /\ pc' = [pc EXCEPT ![p] = "crashed"]
    /\ holders' = holders \ {p}
    /\ req' = [req EXCEPT ![p] = InitReq]
    /\ db_data' = [db_data EXCEPT ![p] = <<>>]
    /\ out' = [out EXCEPT ![p] = <<>>]
    /\ res' = [res EXCEPT ![p] = NoResult]
    /\ UNCHANGED <<db, tmp, nreq>>

\* ---------------------------------------------------------- specifications
\* The steps of the handlers and of the initialization.
Work(p) ==
    \/ Acquire(p)
    \/ GetLoad(p)
    \/ PostLoad(p)
    \/ PatchLoad(p)
    \/ DeleteLoad(p)
    \/ OpenTmp(p)
    \/ DeleteOpen(p)
    \/ DumpTmp(p)
    \/ DeleteDump(p)
    \/ Replace(p)
    \/ Release(p)
    \/ Finally(p)
    \/ Return(p)

\* I/O errors and crashes.
IOFault(p) ==
    \/ OpenFail(p)
    \/ DumpFail(p)
    \/ ReplaceFail(p)
    \/ RemoveFail(p)
    \/ Crash(p)

Next == \E p \in Procs : Invoke(p) \/ Work(p) \/ LockTimeout(p) \/ IOFault(p)

\* No process is inside a handler or the initialization.
Quiescent == \A p \in Procs : pc[p] \in {"idle", "failed", "crashed"}

\* Requests arrive one at a time; a process may crash or meet an I/O error
\* in its write.
NextSerial ==
    \E p \in Procs :
        \/ Quiescent /\ Invoke(p)
        \/ Work(p)
        \/ OpenFail(p)
        \/ DumpFail(p)
        \/ ReplaceFail(p)
        \/ Crash(p)

\* MaxReqs POST requests with distinct bodies, in any interleaving, with no
\* I/O error, crash or lock timeout.
NextAppend ==
    \E p \in Procs :
        \/ InvokeAppend(p)
        \/ Acquire(p)
        \/ PostLoad(p)
        \/ OpenTmp(p)
        \/ DumpTmp(p)
        \/ Replace(p)
        \/ Release(p)
        \/ Finally(p)

\* From a cold start: every process runs the initialization, then serves.
Spec == Init /\ [][Next]_vars

\* From a filled store, one request at a time.
SpecSerial == InitStored /\ [][NextSerial]_vars

\* Concurrent POST requests on the initialized store.
SpecAppend == InitEmpty /\ [][NextAppend]_vars

\* From a store that may be missing or unparseable, one request at a time.
SpecDamaged == InitDamaged /\ [][NextSerial]_vars

\* From a cold start, with one request for each path through the handlers.
NextLock == \E p \in Procs : Serve(p) \/ Work(p) \/ LockTimeout(p) \/ IOFault(p)

SpecLock == Init /\ [][NextLock]_vars

\* The code between lock acquisition and lock release is straight-line:
\* each call in it returns or raises.
FairInside == \A p \in Procs : WF_vars(pc[p] \in Inside /\ Work(p))

\* Requests served on the store the initialization leaves, or on a data
\* file removed or cut short.
SpecExit == (InitEmpty \/ InitBroken) /\ [][NextLock]_vars /\ FairInside

\* Requests on the shared store with any number of lock timeouts and no I/O
\* error or crash.
NextLive == \E p \in Procs : Serve(p) \/ Work(p) \/ Timeout(p)

\* with lock: returns or raises Timeout within the timeout, and a handler
\* that left the with block runs to its return.  Nothing is assumed of the
\* time a process spends holding the lock.
Fairness ==
    \A p \in Procs :
        /\ WF_vars(Acquire(p) \/ Timeout(p))
        /\ WF_vars(Finally(p) \/ Return(p))

SpecLive == Init /\ [][NextLive]_vars /\ Fairness

\* ================================================================ claims

\* C1: in every reachable state, crashes included, the data file is absent
\* or holds one complete valid snapshot, which during a write is the
\* snapshot the writer loaded or the one it is writing; it is never empty,
\* truncated or partial.
C1_FileNeverPartial ==
    db.exists =>
        /\ Parses(db.text)
        /\ \A p \in Procs :
            pc[p] \in {"open", "dump", "replace"} /\ req[p].kind # "init"
                => Load(db.text) \in {db_data[p], out[p]}

\* C2: when a writer reports the write failure, the data file holds the
\* snapshot it held when the operation began.
C2_WriteFailureKeepsSnapshot ==
    \A p \in Procs :
        pc[p] = "release" /\ res[p] = WriteFailed
            => db.exists /\ Parses(db.text) /\ Load(db.text) = db_data[p]

\* C3: with no I/O error, Delete("1") on a store of exactly one record with
\* id "1" leaves zero records and reports success; Delete("1") on the
\* store it leaves reports not found and leaves it unchanged.
C3_DeleteOnceThenNotFound ==
    \A p \in Procs :
        pc[p] = "release" /\ req[p].kind = "delete" /\ req[p].data_id = 1
        /\ nfault = 0
            => /\ (Len(db_data[p]) = 1 /\ IdIs(db_data[p][1], "1"))
                    => (res[p] = Ok /\ db.exists /\ Parses(db.text)
                        /\ Load(db.text) = <<>>)
               /\ db_data[p] = <<>>
                    => (res[p] = TaskNotFound /\ db.exists /\ Parses(db.text)
                        /\ Load(db.text) = <<>>)

\* C4: concurrent POST requests with distinct bodies all report success, and
\* once all have returned the store holds exactly one record per request.
C4_AppendsAllCommit ==
    /\ \A p \in Procs : pc[p] \in {"release", "finally"} => res[p] = Ok
    /\ Quiescent =>
        /\ db.exists /\ Parses(db.text)
        /\ Len(Load(db.text)) = nreq
        /\ \A n \in 1..nreq : \E i \in 1..nreq : IdIs(Load(db.text)[i], Str(n))

\* C5: at most one process holds the lock, and at most one is between lock
\* acquisition and lock release.
C5_MutualExclusion ==
    /\ Cardinality(holders) <= 1
    /\ \A p, q \in Procs : pc[p] \in Inside /\ pc[q] \in Inside => p = q

\* A process is inside while another waits for the lock.
C5_Contended ==
    \E p, q \in Procs : pc[p] \in Inside /\ holders = {p} /\ pc[q] = "start"

\* C6: a temp file left fully written by an interrupted process is never
\* renamed onto the data file: what an operation renames is the text of the
\* list it wrote itself.
C6_RenamesOwnTemp ==
    \A p \in Procs :
        pc[p] = "replace" /\ tmp.exists /\ Parses(tmp.text)
            => Load(tmp.text) = out[p]

\* What a request reports, and the snapshot it leaves, when it runs alone on
\* snapshot d with no I/O error.
AloneResult(r, d) ==
    CASE r.kind = "get" -> GetOk
      [] r.kind = "post" -> Ok
      [] r.kind = "patch" ->
            IF FirstMatch(d, r.body["id"]) # 0 /\ DOMAIN Updates(r.body) = {}
            THEN NoUpdates ELSE Ok
      [] r.kind = "delete" ->
            IF Len(DeleteData(d, r.data_id)) = Len(d) THEN TaskNotFound
            ELSE WriteFailed
      [] OTHER -> Initialized

AloneSnapshot(r, d) ==
    CASE r.kind = "post" -> PostData(d, r.body)
      [] r.kind = "patch" -> PatchData(d, r.body)
      [] r.kind = "delete" -> DeleteData(d, r.data_id)
      [] OTHER -> d

\* C7: with no I/O error, crash or lock timeout, each request that ran
\* concurrently with others reports, and leaves in the data file, what it
\* does when run alone on the snapshot it loaded: the requests take effect
\* one at a time in the order of their lock acquisitions.
C7_AsIfOneAtATime ==
    \A p \in Procs :
        pc[p] = "release" /\ req[p].kind # "init" /\ nfault = 0
            => /\ res[p] = AloneResult(req[p], db_data[p])
               /\ db.exists /\ Parses(db.text)
               /\ Load(db.text) = AloneSnapshot(req[p], db_data[p])

\* C8: a writer that reports success has the data file hold exactly the text
\* of the list it computed.
C8_SuccessMeansCommitted ==
    \A p \in Procs :
        pc[p] = "release" /\ res[p] = Ok => db = File(TextOf(p))

\* C9: every step that changes the data file or the temp file is taken by a
\* process that holds the lock.
C9_FilesChangeUnderLock ==
    [][ db' # db \/ tmp' # tmp
            => \E p \in holders : pc[p] \in Inside /\ pc'[p] # pc[p] ]_vars

\* C10: a process holds the lock exactly while it is between acquisition and
\* release, and can always take its next step there; every process that
\* holds the lock comes to hold it no more, on whatever path it leaves
\* (success, load failure, nothing to update, not found, write failure,
\* crash); with no process inside, the lock is free.
C10_LockReleasedOnExit ==
    /\ [](\A p \in Procs :
            /\ p \in holders <=> pc[p] \in Inside
            /\ pc[p] \in Inside => ENABLED Work(p))
    /\ [](Quiescent => holders = {})
    /\ \A p \in Procs : (p \in holders) ~> (p \notin holders)

\* A writer has held the lock, found the data file missing or unparseable
\* and left the with block with that result; the lock it released is now
\* held by another process.
C10_LeftOnFailure ==
    \E p, q \in Procs :
        /\ pc[p] = "finally" /\ res[p] \in {FileMissing, FileCorrupted}
        /\ p \notin holders
        /\ holders = {q} /\ q # p /\ pc[q] \in Inside

\* C11: a PATCH that reports success, whose id matches a stored record and
\* that carries another field, leaves in the data file the snapshot it
\* loaded with only the first record of that id changed: every field of the
\* input but id is set in it, its other fields and its id are kept, and
\* the other records and the order are as loaded.
C11_PatchMergesFirstMatch ==
    \A p \in Procs :
        LET d == db_data[p]
            b == req[p].body
            i == FirstMatch(d, b["id"])
            u == Updates(b)
        IN  pc[p] = "release" /\ req[p].kind = "patch" /\ res[p] = Ok
            /\ i # 0 /\ DOMAIN u # {}
                => /\ db.exists /\ Parses(db.text)
                   /\ LET s == Load(db.text) IN
                        /\ Len(s) = Len(d)
                        /\ \A j \in 1..Len(d) : j # i => s[j] = d[j]
                        /\ DOMAIN s[i] = DOMAIN d[i] \cup DOMAIN u
                        /\ \A k \in DOMAIN u : s[i][k] = u[k]
                        /\ \A k \in DOMAIN d[i] \ DOMAIN u : s[i][k] = d[i][k]
                        /\ s[i]["id"] = d[i]["id"]

\* A PATCH has committed a change to the first of two records with its id.
C11_PatchedFirstOfTwo ==
    \E p \in Procs :
        /\ pc[p] = "release" /\ req[p].kind = "patch" /\ res[p] = Ok
        /\ Len(db_data[p]) = 2
        /\ IdIs(db_data[p][1], req[p].body["id"])
        /\ IdIs(db_data[p][2], req[p].body["id"])
        /\ db.exists /\ Parses(db.text) /\ Load(db.text) # db_data[p]

\* C12: a PATCH that loaded a snapshot in which no record has its id
\* rewrites the data file with that snapshot, no record changed, and
\* reports success; it reports a write failure only when an I/O error
\* occurred, and the snapshot is then still the one it loaded.
C12_PatchNoMatchCommits ==
    \A p \in Procs :
        LET d == db_data[p] IN
            pc[p] = "release" /\ req[p].kind = "patch"
            /\ res[p] \notin {FileMissing, FileCorrupted}
            /\ FirstMatch(d, req[p].body["id"]) = 0
                => /\ db.exists /\ Parses(db.text) /\ Load(db.text) = d
                   /\ res[p] \in {Ok, WriteFailed}
                   /\ nfault = 0 => res[p] = Ok
                   /\ res[p] = Ok => db = File(Dump(d, PATCH_INDENT))

\* A PATCH whose id matches no record of a non-empty store has rewritten the
\* data file and reports success.
C12_RewrittenWithoutMatch ==
    \E p \in Procs :
        /\ pc[p] = "release" /\ req[p].kind = "patch" /\ res[p] = Ok
        /\ db_data[p] # <<>>
        /\ FirstMatch(db_data[p], req[p].body["id"]) = 0
        /\ db = File(Dump(db_data[p], PATCH_INDENT))
        /\ db # File(Dump(db_data[p], 0))

\* The process at p serves a PATCH whose body has an id and no other field.
EmptyMerge(p) ==
    /\ req[p].kind = "patch"
    /\ "id" \in DOMAIN req[p].body
    /\ DOMAIN Updates(req[p].body) = {}

\* C13 as stated: whenever the body of a PATCH has an id and no other field,
\* no step of the operation under the lock changes the data file or the temp
\* file, and once the snapshot is loaded it reports the no-op outcome (404).
C13_EmptyMergeNeverWrites ==
    [][ \A p \in Procs :
            EmptyMerge(p) /\ pc[p] \in Inside /\ pc'[p] # pc[p]
                => /\ db' = db /\ tmp' = tmp
                   /\ pc[p] = "load" /\ Loadable /\ pc'[p] # "crashed"
                        => pc'[p] = "release" /\ res'[p] = NoUpdates ]_vars

\* C13, amended: when the body of a PATCH has an id and no other field and
\* a record of the loaded snapshot has that id, the operation goes from
\* the load to the release of the lock reporting the no-op outcome (404)
\* with the data file and the temp file unchanged; when no record has that
\* id, it goes on to write the loaded snapshot.
C13_EmptyMergeOnMatchNoWrite ==
    [][ \A p \in Procs :
            EmptyMerge(p) /\ pc[p] = "load" /\ Loadable
            /\ pc'[p] # pc[p] /\ pc'[p] # "crashed"
                => IF FirstMatch(Load(db.text), req[p].body["id"]) # 0
                   THEN /\ pc'[p] = "release" /\ res'[p] = NoUpdates
                        /\ db' = db /\ tmp' = tmp
                   ELSE /\ pc'[p] = "open"
                        /\ out'[p] = Load(db.text) ]_vars

\* A PATCH with an id and no other field has matched a record and reports
\* the no-op outcome, the data file still as it was stored.
C13_NoOpReported ==
    \E p \in Procs :
        /\ pc[p] = "release" /\ EmptyMerge(p) /\ res[p] = NoUpdates
        /\ FirstMatch(db_data[p], req[p].body["id"]) # 0
        /\ db = File(Dump(db_data[p], 0))
        /\ tmp = Absent

\* The positions of d whose record does not have the id.
Kept(d, id) == { i \in 1..Len(d) : ~IdIs(d[i], id) }

\* s is d without the records that have the id, the others in d's order.
IsFiltered(s, d, id) ==
    /\ Len(s) = Cardinality(Kept(d, id))
    /\ \A j \in 1..Len(s) :
        s[j] = d[CHOOSE i \in Kept(d, id) :
                    Cardinality({k \in Kept(d, id) : k < i}) = j - 1]

\* C14: a DELETE whose id no record of the loaded snapshot has reports not
\* found and leaves the data file and the temp file as they are; a DELETE
\* whose id matches goes on to write, and when it reports success the data
\* file holds the loaded snapshot without any record of that id, the other
\* records in their order.
C14_DeleteNotFoundOrFiltered ==
    /\ [][ \A p \in Procs :
            req[p].kind = "delete" /\ pc[p] = "load" /\ Loadable
            /\ pc'[p] # pc[p] /\ pc'[p] # "crashed"
                => IF Kept(Load(db.text), Str(req[p].data_id))
                        = 1..Len(Load(db.text))
                   THEN /\ pc'[p] = "release" /\ res'[p] = TaskNotFound
                        /\ db' = db /\ tmp' = tmp
                   ELSE pc'[p] = "open" ]_vars
    /\ [](\A p \in Procs :
            pc[p] = "release" /\ req[p].kind = "delete" /\ res[p] = Ok
                => /\ db.exists /\ Parses(db.text)
                   /\ IsFiltered(Load(db.text), db_data[p], Str(req[p].data_id))
                   /\ \A i \in 1..Len(Load(db.text)) :
                        ~IdIs(Load(db.text)[i], Str(req[p].data_id)))

\* The request r is a PATCH whose body has no id.
NoId(r) == r.kind = "patch" /\ "id" \notin DOMAIN r.body

\* C15: a PATCH whose body has no id reports id missing and returns; from
\* its invocation to its return it never holds the lock or stands where
\* the data file is read, and no step it takes changes the data file, the
\* temp file or the lock.
C15_PatchNoIdTouchesNothing ==
    /\ [](\A p \in Procs :
            NoId(req[p]) => /\ pc[p] = "done" /\ res[p] = IdMissing
                            /\ p \notin holders)
    /\ [][ \A p \in Procs :
            (NoId(req[p]) \/ NoId(req'[p])) /\ pc'[p] # pc[p]
                => /\ db' = db /\ tmp' = tmp /\ holders' = holders
                   /\ NoId(req[p]) => pc'[p] = "idle" ]_vars

\* A PATCH without id has reported id missing while another process holds
\* the lock and has its temp file written.
C15_ReturnedWhileLocked ==
    \E p, q \in Procs :
        /\ NoId(req[p]) /\ pc[p] = "done" /\ res[p] = IdMissing
        /\ holders = {q} /\ tmp.exists

\* The process at p serves a POST, PATCH or DELETE.
Writer(p) == req[p].kind \in {"post", "patch", "delete"}

\* C16: when a POST, PATCH or DELETE cannot load the data file it reports
\* the missing outcome (404) if the file is absent and the corrupted
\* outcome (500) if it does not parse, and no step of the operation, up to
\* its return, changes the data file.
C16_LoadFailureReportedNoMutation ==
    [][ \A p \in Procs :
            pc'[p] # pc[p] /\ pc'[p] # "crashed"
                => /\ Writer(p) /\ pc[p] = "load" /\ ~Loadable
                        => /\ pc'[p] = "release"
                           /\ res'[p] = IF db.exists THEN FileCorrupted
                                        ELSE FileMissing
                           /\ res'[p].code = IF db.exists THEN 500 ELSE 404
                           /\ db' = db
                   /\ res[p] \in {FileMissing, FileCorrupted} => db' = db ]_vars

\* A writer reports the corrupted outcome on a data file that holds an
\* unparseable text, and the file is still that text.
C16_CorruptReported ==
    \E p \in Procs :
        /\ pc[p] = "release" /\ res[p] = FileCorrupted
        /\ db.exists /\ db.text # <<>> /\ ~Parses(db.text)

\* C17: a process waiting for the lock does not wait forever, however long
\* the lock is held: it acquires the lock or fails with the lock timeout; a
\* process that leaves the wait without the lock reports that failure,
\* does not return to the wait or enter the locked section, and reaches
\* its return.
C17_LockWaitEnds ==
    /\ \A p \in Procs : (pc[p] = "start") ~> (pc[p] # "start")
    /\ \A p \in Procs : (res[p] = Busy) ~> (pc[p] \in {"idle", "failed"})
    /\ [][ \A p \in Procs :
            /\ pc[p] = "start" /\ pc'[p] # "start" /\ p \notin holders'
                => res'[p] = Busy /\ pc'[p] \in {"finally", "done"}
            /\ res[p] = Busy /\ pc'[p] # pc[p]
                => pc'[p] \in {"idle", "failed"} ]_vars

\* A GET has failed with the lock timeout while another process still
\* holds the lock.
C17_TimedOutWhileHeld ==
    \E p, q \in Procs :
        /\ pc[p] = "done" /\ res[p] = Busy
        /\ holders = {q} /\ q # p

\* C18: a GET returns records only when the data file holds a complete valid
\* snapshot, and then all of its records in order; on an absent file it
\* reports DB missing (404), and on a file that does not parse it fails
\* with the corrupted error (500) and returns no records.
C18_GetOnlyValidSnapshot ==
    \A p \in Procs :
        pc[p] = "release" /\ req[p].kind = "get"
            => /\ res[p] = GetOk
                    => /\ db.exists /\ Parses(db.text)
                       /\ db_data[p] = Load(db.text)
                       /\ db.text \in { Dump(db_data[p], 0),
                                        Dump(db_data[p], PATCH_INDENT) }
               /\ ~db.exists
                    => res[p] = GetMissing /\ res[p].code = 404
                       /\ db_data[p] = <<>>
               /\ db.exists /\ ~Parses(db.text)
                    => res[p] = GetCorrupted /\ res[p].code = 500
                       /\ db_data[p] = <<>>
               /\ db.exists /\ Parses(db.text) => res[p] = GetOk

\* A GET has failed with the corrupted error on a data file cut short after
\* a record.
C18_CorruptNotTruncated ==
    \E p \in Procs :
        /\ pc[p] = "release" /\ req[p].kind = "get" /\ res[p] = GetCorrupted
        /\ db.exists /\ ~Parses(db.text) /\ Load(db.text) # <<>>

\* C19: no step of an operation that fails with the lock timeout, from the
\* timeout to its return, changes the data file or the temp file.
C19_TimeoutChangesNothing ==
    [][ \A p \in Procs :
            (res[p] = Busy \/ res'[p] = Busy) /\ pc'[p] # pc[p]
                => db' = db /\ tmp' = tmp ]_vars

\* No two records of s that have an id share it.
UniqueIds(s) ==
    \A i, j \in 1..Len(s) :
        i # j /\ "id" \in DOMAIN s[i] /\ "id" \in DOMAIN s[j]
            => s[i]["id"] # s[j]["id"]

\* C20: when a PATCH or DELETE has loaded a snapshot in which no two records
\* share an id, the snapshot the data file holds when the operation leaves,
\* whatever it reports, has no two records sharing an id; after a PATCH it
\* has as many records as the loaded one, with the same ids in the same
\* positions.
C20_PatchDeleteKeepUniqueIds ==
    \A p \in Procs :
        LET d == db_data[p] IN
            pc[p] = "release" /\ req[p].kind \in {"patch", "delete"}
            /\ res[p] \notin {FileMissing, FileCorrupted}
            /\ db.exists /\ Parses(db.text)
                => LET s == Load(db.text) IN
                    /\ UniqueIds(d) => UniqueIds(s)
                    /\ req[p].kind = "patch"
                        => /\ Len(s) = Len(d)
                           /\ \A i \in 1..Len(d) :
                                /\ "id" \in DOMAIN s[i] <=> "id" \in DOMAIN d[i]
                                /\ "id" \in DOMAIN d[i] => s[i]["id"] = d[i]["id"]

====
